---- MODULE Spec2Model ----
(***************************************************************************)
(* A model of the voice-messaging skill: the provider registry             *)
(* (src/src/providers.py), the STT and TTS adapters                        *)
(* (src/src/stt_providers.py, src/src/tts_providers.py), the orchestrating *)
(* VoiceHandler (src/src/voice_handler.py) and the ffmpeg wrapper          *)
(* AudioProcessor (src/src/audio_processor.py).                            *)
(*                                                                         *)
(* Python exceptions are records [type, msg]: type is the exception class, *)
(* msg the parts of the formatted message in order.  A text is a sequence  *)
(* of one-character strings.  A dict is a function from its keys.          *)
(***************************************************************************)
EXTENDS Integers, Sequences, FiniteSets, TLC

VARIABLES
    sttProviders,   \* ProviderFactory._stt_providers : name -> class
    ttsProviders,   \* ProviderFactory._tts_providers : name -> class
    handler,        \* the VoiceHandler the caller holds (NoHandler before one is built)
    files,          \* output paths that exist on disk
    sttProbes,      \* probe .wav files of test_connection left in the temp directory
    ttsProbes,      \* probe .ogg files of test_connection left in the temp directory
    processor,      \* the AudioProcessor the caller holds (NoProcessor before one is built)
    audioFiles,     \* the audio files on disk that the AudioProcessor reads, writes or removes
    inflight,       \* the blocking call that has been sent and not yet returned
    last            \* the last call: its arguments, what it did and how it ended

vars ==
    <<sttProviders, ttsProviders, handler, files, sttProbes, ttsProbes,
      processor, audioFiles, inflight, last>>

----------------------------------------------------------------------------
(* Values *)

None == "None"

Get(d, k, default) == IF k \in DOMAIN d THEN d[k] ELSE default

Without(d, k) == [x \in DOMAIN d \ {k} |-> d[x]]

Put(d, k, v) == [x \in DOMAIN d \cup {k} |-> IF x = k THEN v ELSE d[x]]

EmptyDict == [x \in {} |-> None]

Err(type, msg) == [type |-> type, msg |-> msg]

NoError == Err("none", <<>>)

Contains(msg, part) == \E i \in DOMAIN msg : msg[i] = part

NoInst == [cls |-> "none", voice |-> None, format |-> None]

NoRequest == [sent |-> FALSE, input |-> <<>>, voice |-> None, format |-> None]

NoResults == [x \in {} |-> FALSE]

\* no AudioProcessor: the audio_processor=None of VoiceHandler
NoProcessor == [built |-> FALSE, ffmpeg_available |-> FALSE, probes |-> 0]

\* no blocking call is waiting
NoCall ==
    [op |-> "none", who |-> "none", phase |-> "idle", bound |-> None, attempts |-> 0,
     answer |-> None]

\* a path is its directory and the parts of its file name; NoPath is None
NoPath == [dir |-> "none", name |-> <<>>]

\* cleanup's pattern argument: not given (None), or the parts of a glob pattern
NoPattern == [given |-> FALSE, glob |-> <<>>]

NoProbe ==
    [sttCreated |-> FALSE, sttCalled |-> FALSE, sttOk |-> FALSE, sttRemoved |-> FALSE,
     ttsCreated |-> FALSE, ttsCalled |-> FALSE, ttsOk |-> FALSE, ttsRemoved |-> FALSE]

Blank ==
    [op |-> "init", cat |-> "none", name |-> None, cls |-> "none",
     config |-> EmptyDict, ctors |-> <<>>,
     outcome |-> "ok", error |-> NoError, inst |-> NoInst,
     path |-> None, text |-> <<>>, voice |-> None, format |-> None,
     kwargs |-> EmptyDict, request |-> NoRequest, writes |-> {},
     delegated |-> "no", delegateError |-> NoError, delegateText |-> <<>>,
     log |-> <<>>, results |-> NoResults, probe |-> NoProbe,
     input |-> NoPath, platform |-> None, output |-> NoPath, pattern |-> NoPattern,
     tool |-> <<>>, exit |-> None, ret |-> NoPath, removed |-> {},
     voices |-> <<>>, delegateVoices |-> <<>>, sections |-> <<>>,
     called |-> "no", object |-> None, use |-> None, conversions |-> <<>>]

----------------------------------------------------------------------------
(* The registry: ProviderFactory *)

STTClasses == {"WhisperSTT", "FasterWhisperSTT", "OpenAIWhisperSTT", "GoogleCloudSTT"}

TTSClasses == {"KokoroTTS", "Qwen3TTS", "OpenAITTS", "ElevenLabsTTS"}

\* stt_providers.py registers its four classes when the module is loaded
SttModuleLoad ==
    ("whisper" :> "WhisperSTT") @@ ("faster-whisper" :> "FasterWhisperSTT")
    @@ ("openai" :> "OpenAIWhisperSTT") @@ ("google" :> "GoogleCloudSTT")

\* tts_providers.py registers its four classes when the module is loaded
TtsModuleLoad ==
    ("kokoro" :> "KokoroTTS") @@ ("qwen3" :> "Qwen3TTS")
    @@ ("openai" :> "OpenAITTS") @@ ("elevenlabs" :> "ElevenLabsTTS")

\* names offered to register: one that both tables hold, one that neither holds
RegNames == {"openai", "custom"}

\* classes offered to register (register does not look at the class)
RegClasses == {"FasterWhisperSTT", "KokoroTTS"}

\* names offered to create
CreateNames == {"openai", "kokoro", "faster-whisper", "qwen3", "custom", "does-not-exist"}

\* configs offered to create
CreateConfigs ==
    { EmptyDict,
      [api_key |-> "sk-test"],
      [voice |-> "af_heart", format |-> "wav"] }

\* what a constructor finds: is its dependency importable, and how does the
\* backend's own initialisation (model load, client construction) end
CtorEnvs ==
    { [dep |-> TRUE, init |-> "ok"],
      [dep |-> FALSE, init |-> "ok"],
      [dep |-> TRUE, init |-> "ValueError"] }

RequiredKeys(cls) ==
    IF cls \in {"OpenAIWhisperSTT", "GoogleCloudSTT", "OpenAITTS", "ElevenLabsTTS"}
    THEN {"api_key"} ELSE {}

\* the package each constructor imports, as named in its ImportError
Dependency(cls) ==
    CASE cls = "WhisperSTT" -> "whisper"
      [] cls = "FasterWhisperSTT" -> "faster-whisper"
      [] cls \in {"OpenAIWhisperSTT", "OpenAITTS"} -> "openai"
      [] cls = "GoogleCloudSTT" -> "google-cloud-speech"
      [] cls \in {"KokoroTTS", "ElevenLabsTTS"} -> "requests"
      [] OTHER -> None

\* constructors that call into the backend library after the import
LoadsBackend(cls) ==
    cls \in {"WhisperSTT", "FasterWhisperSTT", "OpenAIWhisperSTT", "OpenAITTS", "GoogleCloudSTT"}

\* the fields __init__ leaves on the instance
InitFields(cls, config) ==
    CASE cls = "KokoroTTS" ->
            [cls |-> cls, voice |-> Get(config, "voice", "af_bella"),
             format |-> Get(config, "format", "ogg")]
      [] cls = "OpenAITTS" ->
            [cls |-> cls, voice |-> Get(config, "voice", "alloy"),
             format |-> Get(config, "format", "mp3")]
      [] cls = "ElevenLabsTTS" ->
            [cls |-> cls, voice |-> Get(config, "voice_id", "default"),
             format |-> Get(config, "format", "mp3")]
      [] OTHER -> [cls |-> cls, voice |-> None, format |-> None]

Raised(e) == [outcome |-> "raised", error |-> e, inst |-> NoInst]

Returned(i) == [outcome |-> "ok", error |-> NoError, inst |-> i]

\* constructors of which Qwen3TTS's ends after storing its fields
ConstructQwenReady(cls, config, env) ==
    IF ~(RequiredKeys(cls) \subseteq DOMAIN config)
    THEN Raised(Err("TypeError", <<"__init__() missing 1 required positional argument: ", "api_key">>))
    ELSE IF cls # "Qwen3TTS" /\ ~env.dep
    THEN Raised(Err("ImportError", <<Dependency(cls), " not installed. Run: pip install ">>))
    ELSE IF LoadsBackend(cls) /\ env.init # "ok"
    THEN Raised(Err(env.init, <<"backend initialisation failed">>))
    ELSE Returned(InitFields(cls, config))

\* provider_class(**config): the call of one adapter's constructor
Construct(cls, config, env) ==
    IF ~(RequiredKeys(cls) \subseteq DOMAIN config)
    THEN Raised(Err("TypeError", <<"__init__() missing 1 required positional argument: ", "api_key">>))
    ELSE IF cls = "Qwen3TTS"
    THEN Raised(Err("NotImplementedError", <<"Qwen3 TTS implementation pending model release">>))
    ELSE IF ~env.dep
    THEN Raised(Err("ImportError", <<Dependency(cls), " not installed. Run: pip install ">>))
    ELSE IF LoadsBackend(cls) /\ env.init # "ok"
    THEN Raised(Err(env.init, <<"backend initialisation failed">>))
    ELSE Returned(InitFields(cls, config))

UnknownProviderErrorNoName(cat, name) ==
    Err("ValueError", <<IF cat = "stt" THEN "Unknown STT provider" ELSE "Unknown TTS provider">>)

\* raise ValueError(f"Unknown STT provider: {provider_name}")
UnknownProviderError(cat, name) ==
    Err("ValueError",
        <<IF cat = "stt" THEN "Unknown STT provider: " ELSE "Unknown TTS provider: ", name>>)

\* one constructor invocation made by a call, with how it ended
CtorCall(cls, config, c) ==
    [cls |-> cls, config |-> config, outcome |-> c.outcome, error |-> c.error]

CreateSwallowing(table, cat, name, config, env) ==
    IF name \notin DOMAIN table
    THEN [outcome |-> "raised", error |-> UnknownProviderError(cat, name),
          inst |-> NoInst, ctors |-> <<>>]
    ELSE LET made(c) ==
                [outcome |-> "ok", error |-> NoError,
                 inst |-> IF c.outcome = "ok" THEN c.inst
                          ELSE [NoInst EXCEPT !.cls = table[name]],
                 ctors |-> <<CtorCall(table[name], config, c)>>]
         IN  made(Construct(table[name], config, env))

\* create_stt / create_tts on the table of the category
Create(table, cat, name, config, env) ==
    IF name \notin DOMAIN table
    THEN [outcome |-> "raised", error |-> UnknownProviderError(cat, name),
          inst |-> NoInst, ctors |-> <<>>]
    ELSE LET made(c) ==
                [outcome |-> c.outcome, error |-> c.error, inst |-> c.inst,
                 ctors |-> <<CtorCall(table[name], config, c)>>]
         IN  made(Construct(table[name], config, env))

RegisterSttShared(name, cls) ==
    /\ sttProviders' = Put(sttProviders, name, cls)
    /\ ttsProviders' = Put(ttsProviders, name, cls)
    /\ last' = [Blank EXCEPT !.op = "register", !.cat = "stt", !.name = name, !.cls = cls]
    /\ UNCHANGED <<handler, files, sttProbes, ttsProbes, processor, audioFiles, inflight>>

\* ProviderFactory.register_stt
RegisterStt(name, cls) ==
    /\ sttProviders' = Put(sttProviders, name, cls)
    /\ last' = [Blank EXCEPT !.op = "register", !.cat = "stt", !.name = name, !.cls = cls]
    /\ UNCHANGED <<ttsProviders, handler, files, sttProbes, ttsProbes,
                   processor, audioFiles, inflight>>

RegisterTtsFirstWins(name, cls) ==
    /\ ttsProviders' = IF name \in DOMAIN ttsProviders THEN ttsProviders
                       ELSE Put(ttsProviders, name, cls)
    /\ last' = [Blank EXCEPT !.op = "register", !.cat = "tts", !.name = name, !.cls = cls]
    /\ UNCHANGED <<sttProviders, handler, files, sttProbes, ttsProbes,
                   processor, audioFiles, inflight>>

\* ProviderFactory.register_tts
RegisterTts(name, cls) ==
    /\ ttsProviders' = Put(ttsProviders, name, cls)
    /\ last' = [Blank EXCEPT !.op = "register", !.cat = "tts", !.name = name, !.cls = cls]
    /\ UNCHANGED <<sttProviders, handler, files, sttProbes, ttsProbes,
                   processor, audioFiles, inflight>>

CreateRecord(cat, name, config, r) ==
    [Blank EXCEPT !.op = "create", !.cat = cat, !.name = name, !.config = config,
                  !.ctors = r.ctors, !.outcome = r.outcome, !.error = r.error,
                  !.inst = r.inst]

\* a create_stt that registers a stand-in class under a name it does not know
CreateSttRegistering(name, config, env) ==
    /\ last' = CreateRecord("stt", name, config, Create(sttProviders, "stt", name, config, env))
    /\ sttProviders' = IF name \in DOMAIN sttProviders THEN sttProviders
                       ELSE Put(sttProviders, name, "WhisperSTT")
    /\ UNCHANGED <<ttsProviders, handler, files, sttProbes, ttsProbes,
                   processor, audioFiles, inflight>>

\* ProviderFactory.create_stt
CreateStt(name, config, env) ==
    /\ last' = CreateRecord("stt", name, config, Create(sttProviders, "stt", name, config, env))
    /\ UNCHANGED <<sttProviders, ttsProviders, handler, files, sttProbes, ttsProbes,
                   processor, audioFiles, inflight>>

\* ProviderFactory.create_tts
CreateTts(name, config, env) ==
    /\ last' = CreateRecord("tts", name, config, Create(ttsProviders, "tts", name, config, env))
    /\ UNCHANGED <<sttProviders, ttsProviders, handler, files, sttProbes, ttsProbes,
                   processor, audioFiles, inflight>>

----------------------------------------------------------------------------
(* Texts *)

\* the length of the preview that the log lines keep: text[:50]
PreviewLen == 50

\* texts are up to PreviewLen + MaxExtra characters long
MaxExtra == 2

Char(i) == IF i % 3 = 1 THEN "a" ELSE IF i % 3 = 2 THEN "b" ELSE "c"

Text(n) == [i \in 1..n |-> Char(i)]

\* s[:n]
Prefix(s, n) == SubSeq(s, 1, IF Len(s) < n THEN Len(s) ELSE n)

RECURSIVE LStrip(_)
LStrip(s) == IF s # <<>> /\ Head(s) = " " THEN LStrip(Tail(s)) ELSE s

RECURSIVE RStrip(_)
RStrip(s) ==
    IF s # <<>> /\ s[Len(s)] = " " THEN RStrip(SubSeq(s, 1, Len(s) - 1)) ELSE s

\* str.strip()
Strip(s) == RStrip(LStrip(s))

\* what a speech backend may answer
BackendTexts ==
    { Text(0), Text(1), Text(PreviewLen), <<" ", "a", " ">> }
    \cup { Text(PreviewLen + k) : k \in 1..MaxExtra }

\* texts offered to synthesize
SynthTexts == { Text(0), <<"T", "e", "s", "t">> }

----------------------------------------------------------------------------
(* The adapters *)

\* how the backend answers one call
BackendAnswers == {"ok", "unreachable", "rejected"}

\* what one transcribe call meets: is the file there, how does the backend
\* answer, and with which text (read only when the earlier steps succeed)
SttEnvs ==
    { e \in [exists : BOOLEAN, backend : BackendAnswers, raw : BackendTexts] :
        /\ ~e.exists => e.backend = "ok"
        /\ (~e.exists \/ e.backend # "ok") => e.raw = Text(0) }

TtsEnvs == [backend : BackendAnswers]

\* the exception a backend library raises, per adapter
NativeError(cls, answer) ==
    CASE cls \in {"KokoroTTS", "ElevenLabsTTS"} ->
            IF answer = "unreachable"
            THEN Err("ConnectionError", <<"connection refused">>)
            ELSE Err("HTTPError", <<"status ", "4xx/5xx">>)
      [] cls \in {"OpenAITTS", "OpenAIWhisperSTT"} ->
            IF answer = "unreachable"
            THEN Err("APIConnectionError", <<"Connection error.">>)
            ELSE Err("APIStatusError", <<"status ", "4xx/5xx">>)
      [] OTHER -> Err("RuntimeError", <<"inference failed">>)

FileMissing(path) == Err("FileNotFoundError", <<"No such file or directory: ", path>>)

SttRaised(e) == [outcome |-> "raised", error |-> e, text |-> <<>>]

SttReturned(t) == [outcome |-> "ok", error |-> NoError, text |-> t]

\* <adapter>.transcribe(audio_path): the dict it returns, reduced to its text
AdapterTranscribe(inst, path, env) ==
    CASE inst.cls \in {"WhisperSTT", "FasterWhisperSTT"} ->
            IF ~env.exists THEN SttRaised(FileMissing(path))
            ELSE IF env.backend # "ok" THEN SttRaised(NativeError(inst.cls, env.backend))
            ELSE SttReturned(Strip(env.raw))
      [] inst.cls = "OpenAIWhisperSTT" ->
            IF ~env.exists THEN SttRaised(FileMissing(path))
            ELSE IF env.backend # "ok" THEN SttRaised(NativeError(inst.cls, env.backend))
            ELSE SttReturned(env.raw)
      [] inst.cls = "GoogleCloudSTT" ->
            IF ~env.exists THEN SttRaised(FileMissing(path))
            ELSE SttRaised(Err("NameError", <<"name 'speech' is not defined">>))
      [] OTHER -> SttRaised(Err("AttributeError", <<"object has no attribute ", "transcribe">>))

TtsRaised(inst, req, e) ==
    [outcome |-> "raised", error |-> e, request |-> req, writes |-> {}, self |-> inst]

TtsReturned(inst, req, out) ==
    [outcome |-> "ok", error |-> NoError, request |-> req, writes |-> {out}, self |-> inst]

\* the request an adapter sends for one synthesize call
SynthRequest(inst, text, kwargs) ==
    IF inst.cls = "ElevenLabsTTS"
    THEN [sent |-> TRUE, input |-> text,
          voice |-> Get(kwargs, "voice_id", inst.voice), format |-> inst.format]
    ELSE [sent |-> TRUE, input |-> text,
          voice |-> Get(kwargs, "voice", inst.voice),
          format |-> Get(kwargs, "format", inst.format)]

AdapterSynthesizeSticky(inst, text, out, kwargs, env) ==
    LET req == SynthRequest(inst, text, kwargs)
        me  == [inst EXCEPT !.voice = req.voice, !.format = req.format]
    IN  IF env.backend # "ok"
        THEN TtsRaised(me, req, NativeError(inst.cls, env.backend))
        ELSE TtsReturned(me, req, out)

\* <adapter>.synthesize(text, output_file, **kwargs): the request sent, the file
\* written, and the adapter's own fields after the call
AdapterSynthesize(inst, text, out, kwargs, env) ==
    CASE inst.cls \in {"KokoroTTS", "OpenAITTS", "ElevenLabsTTS"} ->
            IF env.backend # "ok"
            THEN TtsRaised(inst, SynthRequest(inst, text, kwargs),
                           NativeError(inst.cls, env.backend))
            ELSE TtsReturned(inst, SynthRequest(inst, text, kwargs), out)
      [] inst.cls = "Qwen3TTS" ->
            TtsRaised(inst, NoRequest,
                      Err("NotImplementedError", <<"Qwen3 TTS implementation pending model release">>))
      [] OTHER ->
            TtsRaised(inst, NoRequest,
                      Err("AttributeError", <<"object has no attribute ", "synthesize">>))

\* what the voices endpoint answers with: a JSON object with a "voices" list,
\* a JSON object without that key, or a body that is not JSON
VoicesEnvs ==
    {[backend |-> "ok", body |-> "voices"], [backend |-> "ok", body |-> "no key"],
     [backend |-> "ok", body |-> "not json"],
     [backend |-> "unreachable", body |-> "voices"],
     [backend |-> "rejected", body |-> "voices"]}

\* the "voices" list of the server's answer, in the server's order
ServerVoices ==
    <<[voice_id |-> "bf_emma", name |-> "Emma"], [voice_id |-> "af_heart", name |-> "Heart"]>>

OpenAIVoices == <<"alloy", "echo", "fable", "onyx", "nova", "shimmer">>

VoicesRaised(e) == [outcome |-> "raised", error |-> e, voices |-> <<>>]

VoicesReturned(v) == [outcome |-> "ok", error |-> NoError, voices |-> v]

\* <adapter>.get_voices()
AdapterGetVoices(inst, env) ==
    CASE inst.cls \in {"KokoroTTS", "ElevenLabsTTS"} ->
            IF env.backend # "ok"
            THEN VoicesRaised(NativeError(inst.cls, env.backend))
            ELSE IF env.body = "not json"
            THEN VoicesRaised(Err("JSONDecodeError", <<"Expecting value">>))
            ELSE IF env.body = "no key"
            THEN VoicesReturned(<<>>)
            ELSE VoicesReturned([i \in DOMAIN ServerVoices |-> ServerVoices[i].voice_id])
      [] inst.cls = "OpenAITTS" -> VoicesReturned(OpenAIVoices)
      [] inst.cls = "Qwen3TTS" ->
            VoicesRaised(Err("NotImplementedError",
                             <<"Qwen3 TTS implementation pending model release">>))
      [] OTHER ->
            VoicesRaised(Err("AttributeError", <<"object has no attribute ", "get_voices">>))

\* what the caller does with the object a streaming method returned: nothing,
\* `await obj`, or `async for chunk in obj`
StreamUses == {"drop", "await", "async for"}

\* the body of the `async def`: a lone raise, or a loop that yields
StreamBody(cls, method) ==
    IF method = "synthesize_stream" /\ cls \in {"KokoroTTS", "OpenAITTS"}
    THEN "yields" ELSE "raises"

StreamNotImplemented(cls, method) ==
    Err("NotImplementedError",
        CASE cls = "WhisperSTT" -> <<"Streaming not yet implemented for whisper">>
          [] cls = "FasterWhisperSTT" -> <<"Streaming not yet implemented for faster-whisper">>
          [] cls = "OpenAIWhisperSTT" -> <<"OpenAI Whisper API doesn't support streaming">>
          [] cls = "GoogleCloudSTT" -> <<"Streaming not yet implemented">>
          [] cls = "Qwen3TTS" -> <<"Qwen3 TTS implementation pending model release">>
          [] OTHER -> <<"ElevenLabs streaming requires paid tier">>)

\* calling an `async def` method runs none of its body: a function with a
\* yield gives an async generator, one without gives a coroutine
StreamInvoke(inst, method) ==
    [called |-> "returned", error |-> NoError,
     object |-> IF StreamBody(inst.cls, method) = "yields"
                THEN "async_generator" ELSE "coroutine"]

\* what the caller's use of the returned object ends in
StreamConsume(inst, method, object, use, env) ==
    CASE use = "drop" -> [outcome |-> "ok", error |-> NoError]
      [] use = "await" /\ object = "coroutine" ->
            [outcome |-> "raised", error |-> StreamNotImplemented(inst.cls, method)]
      [] use = "await" /\ object = "async_generator" ->
            [outcome |-> "raised",
             error |-> Err("TypeError", <<"object async_generator can't be used in ",
                                          "'await' expression">>)]
      [] use = "async for" /\ object = "coroutine" ->
            [outcome |-> "raised",
             error |-> Err("TypeError", <<"'async for' requires an object with ",
                                          "__aiter__ method, got coroutine">>)]
      [] OTHER ->
            IF env.backend # "ok"
            THEN [outcome |-> "raised", error |-> NativeError(inst.cls, env.backend)]
            ELSE [outcome |-> "ok", error |-> NoError]

\* instance.transcribe_stream(...) or instance.synthesize_stream(...) on the
\* adapter the last call returned or was made on, and the caller's use of
\* what it got
StreamCall(method, use, env) ==
    /\ \/ method = "transcribe_stream" /\ last.inst.cls \in STTClasses
       \/ method = "synthesize_stream" /\ last.inst.cls \in TTSClasses
    /\ \E c \in {StreamInvoke(last.inst, method)} :
       \E r \in {IF c.called = "raised"
                  THEN [outcome |-> "raised", error |-> c.error]
                  ELSE StreamConsume(last.inst, method, c.object, use, env)} :
        last' = [Blank EXCEPT !.op = method, !.inst = last.inst, !.use = use,
                              !.called = c.called, !.object = c.object,
                              !.outcome = r.outcome, !.error = r.error]
    /\ UNCHANGED <<sttProviders, ttsProviders, handler, files, sttProbes, ttsProbes,
                   processor, audioFiles, inflight>>

----------------------------------------------------------------------------
(* The orchestrator: VoiceHandler *)

NoHandler ==
    [built |-> FALSE, stt |-> NoInst, tts |-> NoInst, defaults |-> EmptyDict,
     configured |-> NoInst, processor |-> NoProcessor]

\* the [stt] sections offered to from_config
SttSections ==
    { [provider |-> "faster-whisper", model |-> "base", device |-> "cpu"],
      [provider |-> "openai", api_key |-> "sk-test"],
      [provider |-> "openai"],
      [provider |-> "does-not-exist"] }

\* the [tts] sections offered to from_config
TtsSections ==
    { [provider |-> "kokoro", base_url |-> "http://localhost:8880/v1",
       voice |-> "af_bella", format |-> "ogg"],
      [provider |-> "openai", api_key |-> "sk-test", voice |-> "nova"],
      [provider |-> "elevenlabs", api_key |-> "sk-test"],
      [provider |-> "qwen3"] }

\* the [defaults] sections offered to from_config
DefaultsSections ==
    { EmptyDict,
      [include_transcription_on_voice_response |-> FALSE,
       voice_response_to_text_message |-> TRUE] }

\* output paths, voices and formats offered to synthesize
OutPaths == {"reply.ogg"}

AudioPaths == {"voice.ogg"}

VoiceArgs == {None, "af_heart"}

FormatArgs == {None, "wav"}

LogLine(level, tag, text, err) == [level |-> level, tag |-> tag, text |-> text, err |-> err]

\* a from_config that hands each whole section to the constructor
FromConfigResultForwardingAll(sttSection, ttsSection, defaults, audio_processor, e1, e2) ==
    LET stt == Create(sttProviders, "stt", sttSection["provider"], sttSection, e1)
        tts == Create(ttsProviders, "tts", ttsSection["provider"], ttsSection, e2)
    IN  [outcome |-> "raised", error |-> stt.error, ctors |-> stt.ctors \o tts.ctors,
         sections |-> <<sttSection, ttsSection>>, handler |-> NoHandler]

\* VoiceHandler.from_config, after the document is parsed
\* a from_config that creates both providers before it looks at either result
\* and pops the provider key from the parsed sections themselves
FromConfigResultEager(sttSection, ttsSection, defaults, audio_processor, e1, e2) ==
    LET stt == Create(sttProviders, "stt", sttSection["provider"],
                      Without(sttSection, "provider"), e1)
        tts == Create(ttsProviders, "tts", ttsSection["provider"],
                      Without(ttsSection, "provider"), e2)
        sections == <<Without(sttSection, "provider"), Without(ttsSection, "provider")>>
    IN  IF stt.outcome = "raised" \/ tts.outcome = "raised"
        THEN [outcome |-> "raised",
              error |-> IF stt.outcome = "raised" THEN stt.error ELSE tts.error,
              ctors |-> stt.ctors \o tts.ctors, sections |-> sections,
              handler |-> NoHandler]
        ELSE [outcome |-> "ok", error |-> NoError, ctors |-> stt.ctors \o tts.ctors,
              sections |-> sections,
              handler |-> [built |-> TRUE, stt |-> stt.inst, tts |-> tts.inst,
                           defaults |-> defaults, configured |-> tts.inst,
                           processor |-> audio_processor]]

FromConfigResult(sttSection, ttsSection, defaults, audio_processor, e1, e2) ==
    LET stt == Create(sttProviders, "stt", sttSection["provider"],
                      Without(sttSection, "provider"), e1)
        tts == Create(ttsProviders, "tts", ttsSection["provider"],
                      Without(ttsSection, "provider"), e2)
    IN  IF stt.outcome = "raised"
        THEN [outcome |-> "raised", error |-> stt.error, ctors |-> stt.ctors,
              sections |-> <<sttSection>>, handler |-> NoHandler]
        ELSE IF tts.outcome = "raised"
        THEN [outcome |-> "raised", error |-> tts.error, ctors |-> stt.ctors \o tts.ctors,
              sections |-> <<sttSection, ttsSection>>, handler |-> NoHandler]
        ELSE [outcome |-> "ok", error |-> NoError, ctors |-> stt.ctors \o tts.ctors,
              sections |-> <<sttSection, ttsSection>>,
              handler |-> [built |-> TRUE, stt |-> stt.inst, tts |-> tts.inst,
                           defaults |-> defaults, configured |-> tts.inst,
                           processor |-> audio_processor]]

FromConfig(sttSection, ttsSection, defaults, audio_processor, e1, e2) ==
    \E r \in {FromConfigResult(sttSection, ttsSection, defaults, audio_processor, e1, e2)} :
        /\ handler' = IF r.outcome = "ok" THEN r.handler ELSE handler
        /\ last' = [Blank EXCEPT !.op = "from_config", !.ctors = r.ctors,
                                 !.sections = r.sections,
                                 !.outcome = r.outcome, !.error = r.error,
                                 !.inst = r.handler.tts]
        /\ UNCHANGED <<sttProviders, ttsProviders, files, sttProbes, ttsProbes,
                       processor, audioFiles, inflight>>

HandlerTranscribeTruncating(h, path, env) ==
    LET r == AdapterTranscribe(h.stt, path, env)
    IN  IF r.outcome = "ok"
        THEN [outcome |-> "ok", error |-> NoError, text |-> Prefix(r.text, PreviewLen),
              delegate |-> r,
              log |-> <<LogLine("info", "Transcribed: ", Prefix(r.text, PreviewLen), NoError)>>]
        ELSE [outcome |-> "raised", error |-> r.error, text |-> <<>>, delegate |-> r,
              log |-> <<LogLine("error", "Transcription failed: ", <<>>, r.error)>>]

\* VoiceHandler.transcribe; self.processor is not read
HandlerTranscribe(h, path, env) ==
    LET r == AdapterTranscribe(h.stt, path, env)
    IN  IF r.outcome = "ok"
        THEN [outcome |-> "ok", error |-> NoError, text |-> r.text, delegate |-> r,
              log |-> <<LogLine("info", "Transcribed: ", Prefix(r.text, PreviewLen), NoError)>>]
        ELSE [outcome |-> "raised", error |-> r.error, text |-> <<>>, delegate |-> r,
              log |-> <<LogLine("error", "Transcription failed: ", <<>>, r.error)>>]

Transcribe(path, env) ==
    \E r \in {HandlerTranscribe(handler, path, env)} :
        /\ handler.built
        /\ last' = [Blank EXCEPT !.op = "transcribe", !.path = path,
                                 !.outcome = r.outcome, !.error = r.error, !.text = r.text,
                                 !.delegated = r.delegate.outcome,
                                 !.delegateError = r.delegate.error,
                                 !.delegateText = r.delegate.text,
                                 !.log = r.log]
        /\ UNCHANGED <<sttProviders, ttsProviders, handler, files, sttProbes, ttsProbes,
                       processor, audioFiles, inflight>>

\* VoiceHandler.process_voice_message: output_audio and platform are not read
HandlerProcessVoiceMessage(h, input_audio, output_audio, platform, env) ==
    HandlerTranscribe(h, input_audio, env)

ProcessVoiceMessage(input_audio, output_audio, platform, env) ==
    \E r \in {HandlerProcessVoiceMessage(handler, input_audio, output_audio, platform, env)} :
        /\ handler.built
        /\ last' = [Blank EXCEPT !.op = "process_voice_message", !.path = input_audio,
                                 !.platform = platform,
                                 !.outcome = r.outcome, !.error = r.error, !.text = r.text,
                                 !.delegated = r.delegate.outcome,
                                 !.delegateError = r.delegate.error,
                                 !.delegateText = r.delegate.text,
                                 !.log = r.log]
        /\ UNCHANGED <<sttProviders, ttsProviders, handler, files, sttProbes, ttsProbes,
                       processor, audioFiles, inflight>>

BuildKwargsAlways(voice, format) == [voice |-> voice, format |-> format]

\* the kwargs that VoiceHandler.synthesize assembles
BuildKwargs(voice, format) ==
    [k \in {x \in {"voice"} : voice # None} \cup {x \in {"format"} : format # None} |->
        IF k = "voice" THEN voice ELSE format]

HandlerSynthesizeSwallowing(h, text, out, voice, format, env) ==
    LET kwargs == BuildKwargs(voice, format)
        r == AdapterSynthesize(h.tts, text, out, kwargs, env)
    IN  IF r.outcome = "ok"
        THEN [outcome |-> "ok", error |-> NoError, kwargs |-> kwargs, delegate |-> r,
              log |-> <<LogLine("info", "Synthesized: ", Prefix(text, PreviewLen), NoError)>>]
        ELSE [outcome |-> "ok", error |-> NoError, kwargs |-> kwargs, delegate |-> r,
              log |-> <<LogLine("error", "Synthesis failed: ", <<>>, r.error)>>]

\* VoiceHandler.synthesize
HandlerSynthesize(h, text, out, voice, format, env) ==
    LET kwargs == BuildKwargs(voice, format)
        r == AdapterSynthesize(h.tts, text, out, kwargs, env)
    IN  IF r.outcome = "ok"
        THEN [outcome |-> "ok", error |-> NoError, kwargs |-> kwargs, delegate |-> r,
              log |-> <<LogLine("info", "Synthesized: ", Prefix(text, PreviewLen), NoError)>>]
        ELSE [outcome |-> "raised", error |-> r.error, kwargs |-> kwargs, delegate |-> r,
              log |-> <<LogLine("error", "Synthesis failed: ", <<>>, r.error)>>]

Synthesize(text, out, voice, format, env) ==
    \E r \in {HandlerSynthesize(handler, text, out, voice, format, env)} :
        /\ handler.built
        /\ handler' = [handler EXCEPT !.tts = r.delegate.self]
        /\ files' = files \cup r.delegate.writes
        /\ last' = [Blank EXCEPT !.op = "synthesize", !.text = text, !.path = out,
                                 !.voice = voice, !.format = format,
                                 !.outcome = r.outcome, !.error = r.error,
                                 !.kwargs = r.kwargs,
                                 !.request = r.delegate.request,
                                 !.writes = r.delegate.writes,
                                 !.delegated = r.delegate.outcome,
                                 !.delegateError = r.delegate.error,
                                 !.log = r.log]
        /\ UNCHANGED <<sttProviders, ttsProviders, sttProbes, ttsProbes,
                       processor, audioFiles, inflight>>

\* the temp directory holds at most MaxProbes left-over probe files of a kind
MaxProbes == 2

\* what one leg of test_connection meets: creating the probe file
\* (NamedTemporaryFile, and for STT the wave writer), the backend, os.unlink
SttLegEnvs ==
    { e \in [setup : {"ok", "no-file", "write-failed"}, backend : BackendAnswers,
             unlink : BOOLEAN] :
        /\ e.setup # "ok" => (e.backend = "ok" /\ e.unlink)
        /\ e.backend # "ok" => e.unlink }

TtsLegEnvs ==
    { e \in [setup : {"ok", "no-file"}, backend : BackendAnswers, unlink : BOOLEAN] :
        /\ e.setup # "ok" => (e.backend = "ok" /\ e.unlink)
        /\ e.backend # "ok" => e.unlink }

TempFileError == Err("OSError", <<"No usable temporary directory found">>)

WaveError == Err("OSError", <<"No space left on device">>)

UnlinkError == Err("PermissionError", <<"Permission denied: ", "probe">>)

ProbeText == <<"T", "e", "s", "t">>

\* an STT leg that deletes its probe file whatever happened to the call
SttLegTidy(h, e) ==
    LET r == AdapterTranscribe(h.stt, "probe.wav",
                               [exists |-> TRUE, backend |-> e.backend, raw |-> Text(0)])
        failed(created, called, err) ==
            [created |-> created, called |-> called, ok |-> FALSE, removed |-> created,
             log |-> <<LogLine("error", "STT test failed: ", <<>>, err)>>]
    IN  IF e.setup = "no-file" THEN failed(FALSE, FALSE, TempFileError)
        ELSE IF e.setup = "write-failed" THEN failed(TRUE, FALSE, WaveError)
        ELSE IF r.outcome = "raised" THEN failed(TRUE, TRUE, r.error)
        ELSE [created |-> TRUE, called |-> TRUE, ok |-> TRUE, removed |-> TRUE, log |-> <<>>]

\* the STT leg of test_connection: lines 166-183
SttLeg(h, e) ==
    LET r == AdapterTranscribe(h.stt, "probe.wav",
                               [exists |-> TRUE, backend |-> e.backend, raw |-> Text(0)])
        failed(created, called, err) ==
            [created |-> created, called |-> called, ok |-> FALSE, removed |-> FALSE,
             log |-> <<LogLine("error", "STT test failed: ", <<>>, err)>>]
    IN  IF e.setup = "no-file" THEN failed(FALSE, FALSE, TempFileError)
        ELSE IF e.setup = "write-failed" THEN failed(TRUE, FALSE, WaveError)
        ELSE IF r.outcome = "raised" THEN failed(TRUE, TRUE, r.error)
        ELSE IF ~e.unlink
        THEN [created |-> TRUE, called |-> TRUE, ok |-> TRUE, removed |-> FALSE,
              log |-> <<LogLine("error", "STT test failed: ", <<>>, UnlinkError)>>]
        ELSE [created |-> TRUE, called |-> TRUE, ok |-> TRUE, removed |-> TRUE, log |-> <<>>]

\* the TTS leg of test_connection: lines 185-195
TtsLeg(h, e) ==
    LET r == AdapterSynthesize(h.tts, ProbeText, "probe.ogg", EmptyDict,
                               [backend |-> e.backend])
        failed(created, called, err) ==
            [created |-> created, called |-> called, ok |-> FALSE, removed |-> FALSE,
             self |-> IF called THEN r.self ELSE h.tts,
             log |-> <<LogLine("error", "TTS test failed: ", <<>>, err)>>]
    IN  IF e.setup = "no-file" THEN failed(FALSE, FALSE, TempFileError)
        ELSE IF r.outcome = "raised" THEN failed(TRUE, TRUE, r.error)
        ELSE IF ~e.unlink
        THEN [created |-> TRUE, called |-> TRUE, ok |-> TRUE, removed |-> FALSE,
              self |-> r.self,
              log |-> <<LogLine("error", "TTS test failed: ", <<>>, UnlinkError)>>]
        ELSE [created |-> TRUE, called |-> TRUE, ok |-> TRUE, removed |-> TRUE,
              self |-> r.self, log |-> <<>>]

ProbeOf(s, t) ==
    [sttCreated |-> s.created, sttCalled |-> s.called, sttOk |-> s.ok,
     sttRemoved |-> s.removed,
     ttsCreated |-> t.created, ttsCalled |-> t.called, ttsOk |-> t.ok,
     ttsRemoved |-> t.removed]

TestConnectionUnguarded(h, se, te) ==
    LET s == SttLeg(h, se)
        t == TtsLeg(h, te)
    IN  IF se.setup = "no-file"
        THEN [outcome |-> "raised", error |-> TempFileError, results |-> NoResults,
              probe |-> NoProbe, log |-> <<>>, self |-> h.tts]
        ELSE IF te.setup = "no-file"
        THEN [outcome |-> "raised", error |-> TempFileError, results |-> NoResults,
              probe |-> ProbeOf(s, [t EXCEPT !.created = FALSE]), log |-> s.log,
              self |-> h.tts]
        ELSE [outcome |-> "ok", error |-> NoError,
              results |-> [stt |-> s.ok, tts |-> t.ok],
              probe |-> ProbeOf(s, t), log |-> s.log \o t.log, self |-> t.self]

\* a test_connection that stops after a failed STT leg and counts a leg only
\* when its probe file is gone
TestConnectionShortCircuit(h, se, te) ==
    LET s == SttLeg(h, se)
        t == IF s.ok THEN TtsLeg(h, te)
             ELSE [created |-> FALSE, called |-> FALSE, ok |-> FALSE, removed |-> FALSE,
                   self |-> h.tts, log |-> <<>>]
    IN  [outcome |-> "ok", error |-> NoError,
         results |-> [stt |-> s.ok /\ s.removed, tts |-> t.ok /\ t.removed],
         probe |-> ProbeOf(s, t), log |-> s.log \o t.log, self |-> t.self]

\* a test_connection that gives up the synthesizer whose probe failed
TestConnectionDropping(h, se, te) ==
    LET s == SttLeg(h, se)
        t == TtsLeg(h, te)
    IN  [outcome |-> "ok", error |-> NoError,
         results |-> [stt |-> s.ok, tts |-> t.ok],
         probe |-> ProbeOf(s, t), log |-> s.log \o t.log,
         self |-> IF t.ok THEN t.self ELSE NoInst]

\* VoiceHandler.test_connection
TestConnectionResult(h, se, te) ==
    LET s == SttLeg(h, se)
        t == TtsLeg(h, te)
    IN  [outcome |-> "ok", error |-> NoError,
         results |-> [stt |-> s.ok, tts |-> t.ok],
         probe |-> ProbeOf(s, t), log |-> s.log \o t.log, self |-> t.self]

Left(created, removed) == IF created /\ ~removed THEN 1 ELSE 0

TestConnection(se, te) ==
    \E r \in {TestConnectionResult(handler, se, te)} :
        /\ handler.built
        /\ sttProbes < MaxProbes
        /\ ttsProbes < MaxProbes
        /\ handler' = [handler EXCEPT !.tts = r.self]
        /\ sttProbes' = sttProbes + Left(r.probe.sttCreated, r.probe.sttRemoved)
        /\ ttsProbes' = ttsProbes + Left(r.probe.ttsCreated, r.probe.ttsRemoved)
        /\ last' = [Blank EXCEPT !.op = "test_connection", !.outcome = r.outcome,
                                 !.error = r.error, !.results = r.results,
                                 !.probe = r.probe, !.log = r.log]
        /\ UNCHANGED <<sttProviders, ttsProviders, files, processor, audioFiles, inflight>>

\* a get_voices without its try/except
HandlerGetVoicesUnguarded(h, env) ==
    LET delegate == AdapterGetVoices(h.tts, env)
    IN  [outcome |-> delegate.outcome, error |-> delegate.error, voices |-> delegate.voices,
         delegate |-> delegate, log |-> <<>>]

\* VoiceHandler.get_voices
HandlerGetVoices(h, env) ==
    LET delegate == AdapterGetVoices(h.tts, env)
    IN  IF delegate.outcome = "raised"
        THEN [outcome |-> "ok", error |-> NoError, voices |-> <<>>, delegate |-> delegate,
              log |-> <<LogLine("error", "Failed to get voices: ", <<>>, delegate.error)>>]
        ELSE [outcome |-> "ok", error |-> NoError, voices |-> delegate.voices,
              delegate |-> delegate, log |-> <<>>]

GetVoices(env) ==
    /\ handler.built
    /\ \E r \in {HandlerGetVoices(handler, env)} :
        last' = [Blank EXCEPT !.op = "get_voices", !.outcome = r.outcome,
                              !.error = r.error, !.voices = r.voices,
                              !.delegated = r.delegate.outcome,
                              !.delegateError = r.delegate.error,
                              !.delegateVoices = r.delegate.voices,
                              !.inst = handler.tts, !.log = r.log]
    /\ UNCHANGED <<sttProviders, ttsProviders, handler, files, sttProbes, ttsProbes,
                   processor, audioFiles, inflight>>

\* VoiceHandler.should_include_transcription_on_voice_response
ShouldIncludeTranscription(h) == Get(h.defaults, "include_transcription_on_voice_response", TRUE)

\* VoiceHandler.should_send_voice_to_text_message
ShouldSendVoiceToTextMessage(h) == Get(h.defaults, "voice_response_to_text_message", FALSE)

\* a summary that reads both keys with the default False
HandlerSummaryBothFalse(h) ==
    [include_transcription_on_voice_response |->
        Get(h.defaults, "include_transcription_on_voice_response", FALSE),
     voice_response_to_text_message |-> ShouldSendVoiceToTextMessage(h)]

\* VoiceHandler.get_default_behavior_summary
HandlerSummary(h) ==
    [include_transcription_on_voice_response |-> ShouldIncludeTranscription(h),
     voice_response_to_text_message |-> ShouldSendVoiceToTextMessage(h)]

GetDefaultBehaviorSummary ==
    /\ handler.built
    /\ last' = [Blank EXCEPT !.op = "get_default_behavior_summary",
                             !.results = HandlerSummary(handler)]
    /\ UNCHANGED <<sttProviders, ttsProviders, handler, files, sttProbes, ttsProbes,
                   processor, audioFiles, inflight>>

----------------------------------------------------------------------------
(* The converter: AudioProcessor *)

\* self.temp_dir
TempDir == "temp"

Basename(path) == path.name

Join(dir, name) == [dir |-> dir, name |-> name]

AudioInputs == {[dir |-> "inbox", name |-> <<"voice", ".ogg">>]}

AudioOutputs == {NoPath, [dir |-> "out", name |-> <<"custom", ".bin">>]}

Platforms == {"telegram", "discord", "whatsapp"}

\* files other programs leave in the same temp directory
ForeignNames == {<<"voice_", "1", ".wav">>, <<"notes", ".txt">>}

\* how a run of the ffmpeg executable ends: exit status 0, a non-zero exit
\* status, no such executable, or an executable this process may not run;
\* and whether what it wrote to its error stream is valid UTF-8
ToolEnvs ==
    {[run |-> "ok", stderr |-> "utf8"], [run |-> "missing", stderr |-> "utf8"],
     [run |-> "denied", stderr |-> "utf8"],
     [run |-> "nonzero", stderr |-> "utf8"], [run |-> "nonzero", stderr |-> "binary"]}

\* the diagnostic the failing tool printed
StderrText == "Invalid data found when processing input"

\* subprocess.run(cmd, check=True, capture_output=True): the exception it raises
SubprocessRun(env) ==
    CASE env.run = "ok" -> NoError
      [] env.run = "nonzero" ->
            Err("CalledProcessError",
                <<"Command ", "ffmpeg", " returned non-zero exit status ", "1">>)
      [] env.run = "missing" ->
            Err("FileNotFoundError", <<"No such file or directory: ", "ffmpeg">>)
      [] env.run = "denied" ->
            Err("PermissionError", <<"Permission denied: ", "ffmpeg">>)

\* e.stderr.decode()
Decode(env) ==
    IF env.stderr = "utf8"
    THEN [outcome |-> "ok", error |-> NoError, text |-> <<StderrText>>]
    ELSE [outcome |-> "raised",
          error |-> Err("UnicodeDecodeError", <<"'utf-8' codec can't decode byte">>),
          text |-> <<>>]

\* AudioProcessor.__init__
AudioProcessorInit(env) ==
    LET e == SubprocessRun(env)
    IN  IF e = NoError
        THEN [outcome |-> "ok", error |-> NoError, log |-> <<>>,
              self |-> [built |-> TRUE, ffmpeg_available |-> TRUE, probes |-> 1]]
        ELSE IF e.type \in {"CalledProcessError", "FileNotFoundError"}
        THEN [outcome |-> "ok", error |-> NoError,
              log |-> <<LogLine("warning",
                                "FFmpeg not found. Install it for audio conversion.",
                                <<>>, NoError)>>,
              self |-> [built |-> TRUE, ffmpeg_available |-> FALSE, probes |-> 1]]
        ELSE [outcome |-> "raised", error |-> e, log |-> <<>>, self |-> NoProcessor]

NewProcessor(env) ==
    \E r \in {AudioProcessorInit(env)} :
        /\ processor' = IF r.outcome = "ok" THEN r.self ELSE processor
        /\ last' = [Blank EXCEPT !.op = "AudioProcessor", !.outcome = r.outcome,
                                 !.error = r.error, !.log = r.log]
        /\ UNCHANGED <<sttProviders, ttsProviders, handler, files, sttProbes, ttsProbes,
                       audioFiles, inflight>>

\* the try block shared by convert_for_stt and convert_for_platform
RunConversion(self, cmd, tag, env) ==
    LET e == SubprocessRun(env)
        decoded == Decode(env)
        base == [self |-> self, tool |-> <<cmd>>, exit |-> env.run]
    IN  IF e = NoError
        THEN base @@ [outcome |-> "ok", error |-> NoError, ret |-> cmd.out,
                      made |-> {cmd.out},
                      log |-> <<LogLine("info", "Converted", <<>>, NoError)>>]
        ELSE IF e.type # "CalledProcessError"
        THEN base @@ [outcome |-> "raised", error |-> e, ret |-> NoPath, made |-> {},
                      log |-> <<>>]
        ELSE IF decoded.outcome = "raised"
        THEN base @@ [outcome |-> "raised", error |-> decoded.error, ret |-> NoPath,
                      made |-> {}, log |-> <<>>]
        ELSE base @@ [outcome |-> "raised",
                      error |-> Err("RuntimeError", <<"Audio conversion failed: ">> \o e.msg),
                      ret |-> NoPath, made |-> {},
                      log |-> <<LogLine("error", tag, decoded.text, NoError)>>]

ToolUnavailableError == Err("RuntimeError", <<"FFmpeg required for audio conversion">>)

\* a convert_for_stt that looks for the tool again on every call
ConvertForSttReprobing(self, input_path, output_path, env) ==
    LET again == [self EXCEPT !.probes = @ + 1, !.ffmpeg_available = (env.run # "missing")]
    IN  RunConversion(again,
                      [input |-> input_path, rate |-> "16000", channels |-> "1",
                       codec |-> "pcm_s16le", bitrate |-> None, out |-> output_path],
                      "Conversion failed: ", env)

\* AudioProcessor.convert_for_stt
ConvertForStt(self, input_path, output_path, env) ==
    IF ~self.ffmpeg_available
    THEN [self |-> self, tool |-> <<>>, exit |-> None, outcome |-> "raised",
          error |-> ToolUnavailableError, ret |-> NoPath, made |-> {},
          log |-> <<LogLine("error", "FFmpeg not available for conversion", <<>>, NoError)>>]
    ELSE LET out == IF output_path = NoPath
                    THEN Join(TempDir, <<"converted_">> \o Basename(input_path) \o <<".wav">>)
                    ELSE output_path
         IN  RunConversion(self,
                           [input |-> input_path, rate |-> "16000", channels |-> "1",
                            codec |-> "pcm_s16le", bitrate |-> None, out |-> out],
                           "Conversion failed: ", env)

\* a convert_for_platform that insists on the tool, as convert_for_stt does
ConvertForPlatformStrict(self, input_path, platform, output_path, env) ==
    ConvertForStt(self, input_path, output_path, env)

\* a convert_for_platform that uses the platform table only when it names the
\* output itself
ConvertForPlatformByOutput(self, input_path, platform, output_path, env) ==
    IF ~self.ffmpeg_available
    THEN [self |-> self, tool |-> <<>>, exit |-> None, outcome |-> "ok", error |-> NoError,
          ret |-> input_path, made |-> {}, log |-> <<>>]
    ELSE LET opus == platform = "telegram" /\ output_path = NoPath
             out == IF output_path = NoPath
                    THEN Join(TempDir, <<"response_">> \o Basename(input_path)
                                           \o <<IF opus THEN ".ogg" ELSE ".mp3">>)
                    ELSE output_path
             cmd == [input |-> input_path, rate |-> None, channels |-> None,
                     codec |-> IF opus THEN "libopus" ELSE "libmp3lame",
                     bitrate |-> IF opus THEN "64k" ELSE "128k", out |-> out]
         IN  RunConversion(self, cmd, "Platform conversion failed: ", env)

\* AudioProcessor.convert_for_platform
ConvertForPlatform(self, input_path, platform, output_path, env) ==
    IF ~self.ffmpeg_available
    THEN [self |-> self, tool |-> <<>>, exit |-> None, outcome |-> "ok", error |-> NoError,
          ret |-> input_path, made |-> {}, log |-> <<>>]
    ELSE LET format == IF platform = "telegram" THEN "ogg" ELSE "mp3"
             ext == "." \o format
             out == IF output_path = NoPath
                    THEN Join(TempDir, <<"response_">> \o Basename(input_path) \o <<ext>>)
                    ELSE output_path
             cmd == IF platform = "telegram"
                    THEN [input |-> input_path, rate |-> None, channels |-> None,
                          codec |-> "libopus", bitrate |-> "64k", out |-> out]
                    ELSE [input |-> input_path, rate |-> None, channels |-> None,
                          codec |-> "libmp3lame", bitrate |-> "128k", out |-> out]
         IN  RunConversion(self, cmd, "Platform conversion failed: ", env)

\* Path.glob on the parts of a name: "*" stands for any run of parts
RECURSIVE Matches(_, _)
Matches(glob, name) ==
    IF glob = <<>> THEN name = <<>>
    ELSE IF Head(glob) = "*"
    THEN \E k \in 0..Len(name) : Matches(Tail(glob), SubSeq(name, k + 1, Len(name)))
    ELSE name # <<>> /\ Head(name) = Head(glob) /\ Matches(Tail(glob), Tail(name))

\* the patterns cleanup goes through when it is given none
DefaultPatterns == << <<"voice_", "*", ".wav">>, <<"converted_", "*">>, <<"response_", "*">> >>

CleanupPatterns ==
    {NoPattern, [given |-> TRUE, glob |-> <<>>],
     [given |-> TRUE, glob |-> <<"response_", "*">>],
     [given |-> TRUE, glob |-> <<"*", ".wav">>],
     [given |-> TRUE, glob |-> <<"/", "*">>]}

\* the files of the temp directory that cannot be unlinked
StuckSets == {{}, {<<"voice_", "1", ".wav">>}, {<<"response_", "voice", ".ogg", ".ogg">>}}

TempNames(disk) == {f.name : f \in {g \in disk : g.dir = TempDir}}

\* the body of cleanup's try block: every way the loops can end, with the
\* names unlinked before that (a directory is listed in no particular order)
CleanupBody(pattern, names, stuck) ==
    LET globs == IF pattern.given /\ pattern.glob # <<>>
                 THEN <<pattern.glob>> ELSE DefaultPatterns
        absolute == \E i \in DOMAIN globs : globs[i] # <<>> /\ Head(globs[i]) = "/"
        matched(i) == {n \in names : Matches(globs[i], n)}
        earlier(i) == UNION {matched(j) : j \in 1..(i - 1)}
        failing == {i \in DOMAIN globs : (matched(i) \ earlier(i)) \cap stuck # {}}
        first == CHOOSE i \in failing : \A j \in failing : i <= j
    IN  IF absolute
        THEN {[error |-> Err("NotImplementedError",
                             <<"Non-relative patterns are unsupported">>),
               removed |-> {}]}
        ELSE IF failing = {}
        THEN {[error |-> NoError, removed |-> UNION {matched(i) : i \in DOMAIN globs}]}
        ELSE {[error |-> Err("PermissionError", <<"Operation not permitted">>),
               removed |-> earlier(first) \cup some] :
                 some \in SUBSET ((matched(first) \ earlier(first)) \ stuck)}

\* a cleanup without its try/except
ProcessorCleanupUnguarded(self, body) ==
    [outcome |-> IF body.error = NoError THEN "ok" ELSE "raised", error |-> body.error,
     failure |-> body.error, removed |-> body.removed, log |-> <<>>]

\* AudioProcessor.cleanup, given how the body of its try block ended
ProcessorCleanup(self, body) ==
    IF body.error = NoError
    THEN [outcome |-> "ok", error |-> NoError, failure |-> NoError,
          removed |-> body.removed, log |-> <<>>]
    ELSE [outcome |-> "ok", error |-> NoError, failure |-> body.error,
          removed |-> body.removed,
          log |-> <<LogLine("error", "Cleanup failed: ", <<>>, body.error)>>]

ConvertStt(input_path, output_path, env) ==
    /\ processor.built
    /\ \E r \in {ConvertForStt(processor, input_path, output_path, env)} :
        /\ processor' = r.self
        /\ audioFiles' = audioFiles \cup r.made
        /\ last' = [Blank EXCEPT !.op = "convert_for_stt", !.input = input_path,
                                 !.conversions = <<"convert_for_stt">>,
                                 !.output = output_path, !.outcome = r.outcome,
                                 !.error = r.error, !.tool = r.tool, !.exit = r.exit, !.ret = r.ret,
                                 !.log = r.log]
    /\ UNCHANGED <<sttProviders, ttsProviders, handler, files, sttProbes, ttsProbes, inflight>>

ConvertPlatform(input_path, platform, output_path, env) ==
    /\ processor.built
    /\ \E r \in {ConvertForPlatform(processor, input_path, platform, output_path, env)} :
        /\ processor' = r.self
        /\ audioFiles' = audioFiles \cup r.made
        /\ last' = [Blank EXCEPT !.op = "convert_for_platform", !.input = input_path,
                                 !.conversions = <<"convert_for_platform">>,
                                 !.platform = platform, !.output = output_path,
                                 !.outcome = r.outcome, !.error = r.error,
                                 !.tool = r.tool, !.exit = r.exit, !.ret = r.ret, !.log = r.log]
    /\ UNCHANGED <<sttProviders, ttsProviders, handler, files, sttProbes, ttsProbes, inflight>>

Cleanup(pattern, stuck) ==
    /\ processor.built
    /\ \E body \in CleanupBody(pattern, TempNames(audioFiles), stuck) :
       \E r \in {ProcessorCleanup(processor, body)} :
        /\ audioFiles' = {f \in audioFiles : f.dir # TempDir \/ f.name \notin r.removed}
        /\ last' = [Blank EXCEPT !.op = "cleanup", !.pattern = pattern,
                                 !.outcome = r.outcome, !.error = r.error,
                                 !.delegateError = r.failure,
                                 !.removed = r.removed, !.log = r.log]
    /\ UNCHANGED <<sttProviders, ttsProviders, handler, files, sttProbes, ttsProbes,
                   processor, inflight>>

\* another program writes a file into the temp directory
ForeignWrite(name) ==
    /\ audioFiles' = audioFiles \cup {Join(TempDir, name)}
    /\ last' = [Blank EXCEPT !.op = "foreign_write"]
    /\ UNCHANGED <<sttProviders, ttsProviders, handler, files, sttProbes, ttsProbes,
                   processor, inflight>>

----------------------------------------------------------------------------
(* The blocking calls: session.post / session.get, the OpenAI client, model
   inference and subprocess.run, from the moment the call is entered to the
   moment it returns or raises *)

\* the blocking call each operation makes, and on what it waits
BlockingSites(h, p) ==
    (IF h.built
     THEN {[op |-> "transcribe", who |-> h.stt.cls], [op |-> "synthesize", who |-> h.tts.cls]}
     ELSE {})
    \cup (IF h.built /\ h.tts.cls \in {"KokoroTTS", "ElevenLabsTTS"}
          THEN {[op |-> "get_voices", who |-> h.tts.cls]} ELSE {})
    \cup (IF p.built /\ p.ffmpeg_available
          THEN {[op |-> "convert_for_stt", who |-> "ffmpeg"],
                [op |-> "convert_for_platform", who |-> "ffmpeg"]}
          ELSE {})

\* the longest the call waits: no call site passes timeout=, so requests,
\* subprocess.run and the local models wait without end; the OpenAI client
\* is built without a timeout too and keeps the one it has by default
WaitBound(who) ==
    IF who \in {"OpenAIWhisperSTT", "OpenAITTS"} THEN "client default" ELSE None

TimeoutError(who) == Err("APITimeoutError", <<"Request timed out.">>)

\* the call is entered: the request is sent, or the subprocess started, once
BeginCall(site) ==
    /\ inflight.phase = "idle"
    /\ site \in BlockingSites(handler, processor)
    /\ inflight' = [op |-> site.op, who |-> site.who, phase |-> "waiting",
                    bound |-> WaitBound(site.who), attempts |-> inflight.attempts + 1,
                    answer |-> None]
    /\ last' = [Blank EXCEPT !.op = site.op, !.cls = site.who, !.outcome = "pending"]
    /\ UNCHANGED <<sttProviders, ttsProviders, handler, files, sttProbes, ttsProbes,
                   processor, audioFiles>>

\* the backend answers, or the subprocess exits; nothing makes it do so
AnswerArrives(answer) ==
    /\ inflight.phase = "waiting"
    /\ inflight' = [inflight EXCEPT !.phase = "answered", !.answer = answer]
    /\ UNCHANGED <<sttProviders, ttsProviders, handler, files, sttProbes, ttsProbes,
                   processor, audioFiles, last>>

\* the call returns, or raises what the answer stands for
ReturnCall ==
    /\ inflight.phase = "answered"
    /\ inflight' = NoCall
    /\ last' = [Blank EXCEPT !.op = inflight.op, !.cls = inflight.who,
                             !.outcome = IF inflight.answer = "ok" THEN "ok" ELSE "raised",
                             !.error = IF inflight.answer = "ok" THEN NoError
                                       ELSE NativeError(inflight.who, inflight.answer)]
    /\ UNCHANGED <<sttProviders, ttsProviders, handler, files, sttProbes, ttsProbes,
                   processor, audioFiles>>

\* the wait reaches its bound, where there is one
TimeOut ==
    /\ inflight.phase = "waiting"
    /\ inflight.bound # None
    /\ inflight' = NoCall
    /\ last' = [Blank EXCEPT !.op = inflight.op, !.cls = inflight.who,
                             !.outcome = "raised", !.error = TimeoutError(inflight.who)]
    /\ UNCHANGED <<sttProviders, ttsProviders, handler, files, sttProbes, ttsProbes,
                   processor, audioFiles>>

----------------------------------------------------------------------------
(* Claims about the registry *)

TableOf(cat) == IF cat = "stt" THEN sttProviders ELSE ttsProviders

\* the error kinds of the registry, as the code raises them: UnknownProvider is
\* the ValueError that create itself raises
IsUnknownProvider(e) ==
    /\ e.type = "ValueError"
    /\ Len(e.msg) >= 1
    /\ e.msg[1] \in {"Unknown STT provider: ", "Unknown TTS provider: ",
                     "Unknown STT provider", "Unknown TTS provider"}

FullyConstructed(i) ==
    /\ i.cls \in STTClasses \cup TTSClasses
    /\ i.cls \in TTSClasses => (i.voice # None /\ i.format # None)

\* C1: create with a name that its category's table does not hold fails with
\* the unknown-provider error for every config, the message holds the offered
\* name, and no constructor is invoked.
C1_UnknownNameFails ==
    (last.op = "create" /\ last.name \notin DOMAIN TableOf(last.cat)) =>
        /\ last.outcome = "raised"
        /\ IsUnknownProvider(last.error)
        /\ Contains(last.error.msg, last.name)
        /\ last.ctors = <<>>
        /\ last.inst = NoInst

C1_Witness ==
    /\ last.op = "create" /\ last.cat = "stt" /\ last.name = "custom"
    /\ "custom" \notin DOMAIN sttProviders /\ "custom" \in DOMAIN ttsProviders
    /\ last.config # EmptyDict
    /\ last.outcome = "raised"

C3_IndependentNamespaces ==
    /\ [][ /\ (last'.op = "register" /\ last'.cat = "stt") => ttsProviders' = ttsProviders
           /\ (last'.op = "register" /\ last'.cat = "tts") => sttProviders' = sttProviders ]_vars
    /\ [](last.op = "create" =>
            IF last.name \in DOMAIN TableOf(last.cat)
            THEN Len(last.ctors) = 1 /\ last.ctors[1].cls = TableOf(last.cat)[last.name]
            ELSE last.ctors = <<>>)

C3_Witness ==
    /\ "custom" \in DOMAIN sttProviders /\ "custom" \in DOMAIN ttsProviders
    /\ sttProviders["custom"] = "FasterWhisperSTT" /\ ttsProviders["custom"] = "KokoroTTS"
    /\ last.op = "create" /\ last.cat = "tts" /\ last.name = "custom"
    /\ last.inst.cls = "KokoroTTS"

\* C4: register is last-writer-wins and idempotent: a register step leaves the
\* name mapped to the class just given, adds no other name, removes none and
\* alters no entry of another name; registering a pair the table already holds
\* leaves the table as it was.
C4_LastWriterWins ==
    [][ last'.op = "register" =>
          LET before == IF last'.cat = "stt" THEN sttProviders ELSE ttsProviders
              after  == IF last'.cat = "stt" THEN sttProviders' ELSE ttsProviders'
              name   == last'.name
          IN  /\ DOMAIN after = DOMAIN before \cup {name}
              /\ after[name] = last'.cls
              /\ \A n \in DOMAIN before \ {name} : after[n] = before[n]
              /\ (name \in DOMAIN before /\ before[name] = last'.cls) => after = before
      ]_vars

C4_Witness ==
    /\ last.op = "register" /\ last.cat = "tts" /\ last.name = "openai"
    /\ ttsProviders["openai"] = last.cls
    /\ last.cls # TtsModuleLoad["openai"]
    /\ "custom" \in DOMAIN ttsProviders /\ ttsProviders["custom"] = "FasterWhisperSTT"
    /\ ttsProviders["kokoro"] = "KokoroTTS"

----------------------------------------------------------------------------
(* Claims about the orchestrator and the adapters *)

ErrorLogged(e) ==
    \E i \in DOMAIN last.log : last.log[i].level = "error" /\ last.log[i].err = e

\* C5: test_connection never raises, whatever the two backends and the probe
\* files do: it returns a mapping with exactly the keys stt and tts, both
\* booleans, and when neither leg's call succeeded both are false.
C5_TestConnectionNeverRaises ==
    last.op = "test_connection" =>
        /\ last.outcome = "ok"
        /\ last.error = NoError
        /\ DOMAIN last.results = {"stt", "tts"}
        /\ last.results["stt"] \in BOOLEAN /\ last.results["tts"] \in BOOLEAN
        /\ (~last.probe.sttOk /\ ~last.probe.ttsOk) =>
                (~last.results["stt"] /\ ~last.results["tts"])
        /\ (~last.probe.sttOk \/ ~last.probe.ttsOk) => Len(last.log) >= 1

C5_Witness ==
    /\ last.op = "test_connection"
    /\ ~last.probe.sttCreated
    /\ last.probe.ttsCalled /\ ~last.probe.ttsOk
    /\ last.results = [stt |-> FALSE, tts |-> FALSE]
    /\ Len(last.log) = 2

\* C6: VoiceHandler.transcribe and VoiceHandler.synthesize never swallow a
\* failure: when the adapter's call raises e, the handler's call raises the
\* same e (type and message), after logging it, and returns nothing.
C6_FailuresReRaised ==
    (last.op \in {"transcribe", "synthesize"} /\ last.delegated = "raised") =>
        /\ last.outcome = "raised"
        /\ last.error = last.delegateError
        /\ last.error # NoError
        /\ ErrorLogged(last.delegateError)
        /\ last.text = (IF last.op = "transcribe" THEN <<>> ELSE last.text)

C6_Witness ==
    /\ last.op = "synthesize" /\ last.delegated = "raised"
    /\ last.error.type = "HTTPError"
    /\ last.request.sent

\* C7: VoiceHandler.transcribe returns the whole text of the adapter's result;
\* only the log line is cut to the preview length.
C7_TranscribeReturnsWholeText ==
    (last.op = "transcribe" /\ last.delegated = "ok") =>
        /\ last.outcome = "ok"
        /\ last.text = last.delegateText
        /\ Len(last.log) = 1
        /\ last.log[1].level = "info"
        /\ last.log[1].text = Prefix(last.delegateText, PreviewLen)
        /\ Len(last.log[1].text) <= PreviewLen

C7_Witness ==
    /\ last.op = "transcribe" /\ last.outcome = "ok"
    /\ Len(last.text) > PreviewLen
    /\ Len(last.log[1].text) = PreviewLen

\* C8: VoiceHandler.synthesize forwards the key voice iff voice is not None and
\* the key format iff format is not None, with the values given and no other
\* key; for an absent override the adapter sends its configured default.
C8_OverridesOnlyFromNonNull ==
    last.op = "synthesize" =>
        /\ DOMAIN last.kwargs \subseteq {"voice", "format"}
        /\ ("voice" \in DOMAIN last.kwargs) <=> (last.voice # None)
        /\ ("format" \in DOMAIN last.kwargs) <=> (last.format # None)
        /\ "voice" \in DOMAIN last.kwargs => last.kwargs["voice"] = last.voice
        /\ "format" \in DOMAIN last.kwargs => last.kwargs["format"] = last.format
        /\ (last.voice = None /\ last.request.sent) => last.request.voice = handler.tts.voice
        /\ (last.format = None /\ last.request.sent) => last.request.format = handler.tts.format

C8_Witness ==
    /\ last.op = "synthesize" /\ last.voice = None /\ last.format = "wav"
    /\ DOMAIN last.kwargs = {"format"}
    /\ last.request.sent /\ last.request.voice = "af_bella" /\ last.request.format = "wav"

\* C9: overrides are per call: no call changes the voice and format the TTS
\* adapter was constructed with, and a synthesize call without a voice that
\* follows one with a voice sends the configured voice, not the earlier one.
C9_OverridesDoNotStick ==
    /\ [](handler.built =>
            /\ handler.tts = handler.configured
            /\ (last.op = "synthesize" /\ last.voice = None /\ last.request.sent)
                    => last.request.voice = handler.configured.voice
            /\ (last.op = "synthesize" /\ last.format = None /\ last.request.sent)
                    => last.request.format = handler.configured.format)
    /\ [][ (/\ last.op = "synthesize" /\ last.voice # None
            /\ last'.op = "synthesize" /\ last'.voice = None /\ last'.request.sent)
           => (/\ last'.request.voice = handler.configured.voice
               /\ handler'.configured = handler.configured
               /\ handler'.tts = handler.tts) ]_vars

C9_Witness ==
    /\ last.op = "synthesize" /\ last.voice = None /\ last.request.sent
    /\ handler.tts.cls = "OpenAITTS"
    /\ last.request.voice = "nova" /\ last.request.format = "mp3"
    /\ "reply.ogg" \in files

\* C10: synthesize with the empty text fails with InputError before the backend
\* is contacted, and writes no file.
C10_EmptyTextRejected ==
    (last.op = "synthesize" /\ last.text = <<>>) =>
        /\ last.delegated = "raised"
        /\ last.delegateError.type = "InputError"
        /\ ~last.request.sent
        /\ last.writes = {}

----------------------------------------------------------------------------
(* Claims about the converter *)

\* C11: when the processor found no ffmpeg at construction, every
\* convert_for_platform call, for any platform and with or without an
\* output_path, returns its input_path, raises nothing, runs no tool and
\* leaves the files on disk as they were.
C11_PlatformConversionDegrades ==
    [][(last'.op = "convert_for_platform" /\ ~processor.ffmpeg_available)
        => /\ last'.outcome = "ok"
           /\ last'.ret = last'.input
           /\ last'.tool = <<>>
           /\ audioFiles' = audioFiles
           /\ files' = files]_vars

C11_Witness ==
    /\ last.op = "convert_for_platform"
    /\ ~processor.ffmpeg_available
    /\ last.platform = "telegram"
    /\ last.output # NoPath
    /\ last.ret = last.input
    /\ audioFiles # {}

\* C12: a processor runs `ffmpeg -version` once, in its constructor, and no
\* later call changes what it found; a processor that found no ffmpeg fails
\* every convert_for_stt with RuntimeError "FFmpeg required for audio
\* conversion" and runs no tool, whatever the tool would do now.
C12_AvailabilityProbedOnce ==
    [][/\ processor'.built => processor'.probes = 1
       /\ (processor.built /\ last'.op # "AudioProcessor") => processor' = processor
       /\ (last'.op = "convert_for_stt" /\ ~processor.ffmpeg_available)
            => /\ last'.outcome = "raised"
               /\ last'.error = ToolUnavailableError
               /\ last'.tool = <<>>
               /\ last'.ret = NoPath]_vars

C12_Witness ==
    /\ last.op = "convert_for_stt"
    /\ processor.built
    /\ ~processor.ffmpeg_available
    /\ processor.probes = 1
    /\ last.error = ToolUnavailableError

\* C13: when ffmpeg runs and exits non-zero, convert_for_stt raises the
\* RuntimeError "Audio conversion failed: ...", returns no path, and the
\* raised error's message holds what the tool wrote to its error stream.
C13_ConversionErrorCarriesStderr ==
    (last.op = "convert_for_stt" /\ last.exit = "nonzero")
        => /\ last.outcome = "raised"
           /\ last.error.type = "RuntimeError"
           /\ Contains(last.error.msg, "Audio conversion failed: ")
           /\ last.ret = NoPath
           /\ Contains(last.error.msg, StderrText)

\* C15: cleanup returns normally for every pattern, given or not, and for
\* every failure of the directory listing or of an unlink; the failure is
\* written to the log at error level.
C15_CleanupNeverRaises ==
    last.op = "cleanup"
        => /\ last.outcome = "ok"
           /\ last.error = NoError
           /\ last.delegateError # NoError
                => \E i \in DOMAIN last.log :
                      last.log[i].level = "error" /\ last.log[i].err = last.delegateError

C15_Witness ==
    /\ last.op = "cleanup"
    /\ last.outcome = "ok"
    /\ last.delegateError.type = "PermissionError"
    /\ last.removed # {}
    /\ ~last.pattern.given

C15_BadPatternWitness ==
    /\ last.op = "cleanup"
    /\ last.outcome = "ok"
    /\ last.delegateError.type = "NotImplementedError"

----------------------------------------------------------------------------
(* Claims about the orchestrator's queries *)

\* C14: VoiceHandler.get_voices never raises.  When the adapter's get_voices
\* raised, whatever the error, the handler returns the empty list; when it
\* returned, the handler returns the adapter's list as it is, in the same
\* order.  The adapter's own call did raise in the first case.
C14_GetVoicesNeverRaises ==
    last.op = "get_voices"
        => /\ last.outcome = "ok"
           /\ last.error = NoError
           /\ last.delegated \in {"ok", "raised"}
           /\ last.delegated = "raised"
                => last.voices = <<>> /\ last.delegateError # NoError
           /\ last.delegated = "ok" => last.voices = last.delegateVoices

C14_Witness ==
    /\ last.op = "get_voices"
    /\ last.inst.cls = "KokoroTTS"
    /\ last.delegated = "raised"
    /\ last.delegateError.type = "ConnectionError"
    /\ last.voices = <<>>

C14_OrderWitness ==
    /\ last.op = "get_voices"
    /\ last.delegated = "ok"
    /\ last.voices = <<"bf_emma", "af_heart">>

\* C18: from_config uses the provider key of a section for the registry
\* lookup only: the keyword arguments each constructor is called with are
\* the stt (first call) or tts (second call) section without the provider
\* key, every other key there with its value as written.
C18_ProviderKeyStripped ==
    last.op = "from_config"
        => \A i \in DOMAIN last.ctors :
              /\ i \in DOMAIN last.sections
              /\ DOMAIN last.ctors[i].config = DOMAIN last.sections[i] \ {"provider"}
              /\ \A k \in DOMAIN last.ctors[i].config :
                    last.ctors[i].config[k] = last.sections[i][k]
              /\ last.ctors[i].cls
                    = (IF i = 1 THEN sttProviders ELSE ttsProviders)[last.sections[i].provider]

C18_Witness ==
    /\ last.op = "from_config"
    /\ last.outcome = "ok"
    /\ Len(last.ctors) = 2
    /\ last.sections[1].provider = "faster-whisper"
    /\ DOMAIN last.ctors[1].config = {"model", "device"}
    /\ last.sections[2].provider = "kokoro"
    /\ "voice" \in DOMAIN last.ctors[2].config

\* C17: get_default_behavior_summary returns, for each of the two policy
\* keys, the value in the handler's defaults, or True
\* (include_transcription_on_voice_response) and False
\* (voice_response_to_text_message) when the key is not there; the call
\* changes nothing of the handler, and a second call returns the same.
C17_SummaryIsPureRead ==
    [][last'.op = "get_default_behavior_summary"
        => /\ last'.outcome = "ok"
           /\ DOMAIN last'.results
                = {"include_transcription_on_voice_response", "voice_response_to_text_message"}
           /\ \A k \in DOMAIN last'.results :
                 last'.results[k] = IF k \in DOMAIN handler.defaults
                                    THEN handler.defaults[k]
                                    ELSE k = "include_transcription_on_voice_response"
           /\ handler' = handler
           /\ files' = files
           /\ last.op = "get_default_behavior_summary" => last'.results = last.results]_vars

C17_Witness ==
    /\ last.op = "get_default_behavior_summary"
    /\ handler.defaults = EmptyDict
    /\ last.results["include_transcription_on_voice_response"]
    /\ ~last.results["voice_response_to_text_message"]

C17_ConfiguredWitness ==
    /\ last.op = "get_default_behavior_summary"
    /\ ~last.results["include_transcription_on_voice_response"]
    /\ last.results["voice_response_to_text_message"]

----------------------------------------------------------------------------
(* Claims about streaming *)

\* C16: a streaming method whose body is only `raise NotImplementedError`
\* (transcribe_stream of the four STT adapters, synthesize_stream of the TTS
\* adapters that cannot stream) raises that error from the call itself: the
\* caller gets no object back whose use does nothing or ends in another error.
C16_UnimplementedStreamingFailsAtCall ==
    (last.op \in {"transcribe_stream", "synthesize_stream"}
        /\ StreamBody(last.inst.cls, last.op) = "raises")
        => /\ last.called = "raised"
           /\ last.object = None
           /\ last.outcome = "raised"
           /\ last.error.type = "NotImplementedError"

----------------------------------------------------------------------------
(* Claims about the orchestrated flow *)

\* C19: a handler that holds an AudioProcessor calls it inside its own
\* calls: transcribe converts the input with convert_for_stt before the STT
\* adapter is called, and synthesize converts with convert_for_platform
\* after the TTS adapter has written the file.
C19_ConverterRunsInOrchestratedCalls ==
    /\ (last.op = "transcribe" /\ handler.processor.built /\ last.delegated # "no")
            => last.conversions = <<"convert_for_stt">>
    /\ (last.op = "synthesize" /\ handler.processor.built /\ last.writes # {})
            => last.conversions = <<"convert_for_platform">>

----------------------------------------------------------------------------
(* Claims about blocking calls *)

\* C20: a transcribe, synthesize, get_voices or convert call that waits on a
\* backend or on the ffmpeg subprocess is made once and always comes back
\* to its caller, also when the backend or the subprocess never answers.
C20_BlockingCallsComplete ==
    /\ [](inflight.attempts <= 1)
    /\ (inflight.phase = "waiting") ~> (inflight.phase = "idle")

----------------------------------------------------------------------------
(* Claims about the adapters' errors *)

\* C21: when an STT adapter's transcribe fails, what it raises is one of
\* the contract's kinds, InputError for a file that is missing or cannot be
\* read, BackendUnavailable for a backend that cannot be reached or loaded
\* (ProviderError for the rest), and never the exception of the file system
\* or of the backend library itself.
C21_AdapterErrorsTranslated ==
    (last.op = "transcribe" /\ last.delegated = "raised")
        => /\ last.delegateError.type \in {"InputError", "BackendUnavailable", "ProviderError"}
           /\ last.delegateError.type
                \notin {"FileNotFoundError", "APIConnectionError", "APIStatusError",
                         "RuntimeError", "NameError"}
           /\ last.error = last.delegateError

----------------------------------------------------------------------------
(* Claims about the platform table *)

\* C23: when convert_for_platform runs the tool, the codec comes from the
\* platform alone (telegram: libopus at 64k, any other platform: libmp3lame at
\* 128k), whether or not the caller names the output; the output is the
\* caller's output_path when given, else response_<basename>.ogg for telegram
\* and response_<basename>.mp3 otherwise in the temp directory; a call that
\* returns returns that output path.
C23_CodecFromPlatformTable ==
    (last.op = "convert_for_platform" /\ last.tool # <<>>)
        => LET cmd == last.tool[1]
               ext == IF last.platform = "telegram" THEN ".ogg" ELSE ".mp3"
               out == IF last.output = NoPath
                      THEN [dir |-> TempDir,
                            name |-> <<"response_">> \o last.input.name \o <<ext>>]
                      ELSE last.output
           IN  /\ Len(last.tool) = 1
               /\ cmd.input = last.input
               /\ cmd.codec = IF last.platform = "telegram" THEN "libopus" ELSE "libmp3lame"
               /\ cmd.bitrate = IF last.platform = "telegram" THEN "64k" ELSE "128k"
               /\ cmd.out = out
               /\ last.outcome = "ok" => last.ret = out

C23_Witness ==
    /\ last.op = "convert_for_platform"
    /\ last.platform = "telegram"
    /\ last.output # NoPath
    /\ last.outcome = "ok"
    /\ last.tool # <<>>
    /\ last.tool[1].codec = "libopus"
    /\ last.ret = last.output

C23_GeneratedNameWitness ==
    /\ last.op = "convert_for_platform"
    /\ last.platform = "whatsapp"
    /\ last.output = NoPath
    /\ last.outcome = "ok"
    /\ last.ret = [dir |-> TempDir, name |-> <<"response_", "voice", ".ogg", ".mp3">>]

----------------------------------------------------------------------------
(* Claims about the probes of test_connection *)

\* C24: the TTS leg of test_connection runs after the STT leg whatever the
\* STT leg did (it calls synthesize or logs its own failure, and its log line
\* comes after the STT leg's); stt is true iff the probe transcribe call
\* returned, tts is true iff the probe synthesize call returned, even when the
\* probe file could not be deleted afterwards.
C24_LegsIndependentAndOrdered ==
    last.op = "test_connection"
        => /\ last.outcome = "ok"
           /\ last.probe.ttsCalled
                \/ \E i \in DOMAIN last.log : last.log[i].tag = "TTS test failed: "
           /\ \A i, j \in DOMAIN last.log :
                (last.log[i].tag = "STT test failed: " /\ last.log[j].tag = "TTS test failed: ")
                    => i < j
           /\ last.results["stt"] <=> (last.probe.sttCalled /\ last.probe.sttOk)
           /\ last.results["tts"] <=> (last.probe.ttsCalled /\ last.probe.ttsOk)

C24_Witness ==
    /\ last.op = "test_connection"
    /\ last.probe.sttCalled
    /\ ~last.probe.sttOk
    /\ last.probe.ttsCalled
    /\ last.probe.ttsOk
    /\ ~last.probe.ttsRemoved
    /\ last.results = [stt |-> FALSE, tts |-> TRUE]
    /\ Len(last.log) = 2

\* the leg tagged tag logged that deleting its probe file failed
UnlinkFailed(log, tag) ==
    \E i \in DOMAIN log : log[i].tag = tag /\ log[i].err = UnlinkError

\* C25 as stated: a probe file that was created is gone when test_connection
\* returns iff its leg succeeded, and each call whose leg failed adds one probe
\* file of that leg to the disk (n such calls leave n files).
C25_ProbeRemovedIffLegSucceeded ==
    [][last'.op = "test_connection"
        => /\ last'.probe.sttCreated
                => (last'.probe.sttRemoved <=> last'.results["stt"])
           /\ last'.probe.ttsCreated
                => (last'.probe.ttsRemoved <=> last'.results["tts"])
           /\ sttProbes' = sttProbes
                + (IF last'.probe.sttCreated /\ ~last'.results["stt"] THEN 1 ELSE 0)
           /\ ttsProbes' = ttsProbes
                + (IF last'.probe.ttsCreated /\ ~last'.results["tts"] THEN 1 ELSE 0)]_vars

\* C25, amended: a probe file that was created is gone when test_connection
\* returns iff its leg succeeded and deleting the file did not itself fail; a
\* leg that fails, or whose deletion fails, leaves exactly one more probe file
\* of that leg on disk, so n calls against a failing backend leave n files.
C25_ProbeFileLifetime ==
    [][last'.op = "test_connection"
        => LET sttGone == last'.results["stt"] /\ ~UnlinkFailed(last'.log, "STT test failed: ")
               ttsGone == last'.results["tts"] /\ ~UnlinkFailed(last'.log, "TTS test failed: ")
           IN  /\ last'.probe.sttCreated => (last'.probe.sttRemoved <=> sttGone)
               /\ last'.probe.ttsCreated => (last'.probe.ttsRemoved <=> ttsGone)
               /\ ~last'.probe.sttCreated => ~last'.probe.sttRemoved
               /\ ~last'.probe.ttsCreated => ~last'.probe.ttsRemoved
               /\ sttProbes' = sttProbes
                    + (IF last'.probe.sttCreated /\ ~sttGone THEN 1 ELSE 0)
               /\ ttsProbes' = ttsProbes
                    + (IF last'.probe.ttsCreated /\ ~ttsGone THEN 1 ELSE 0)]_vars

C25_Witness ==
    /\ last.op = "test_connection"
    /\ sttProbes = MaxProbes
    /\ ttsProbes = 1
    /\ last.probe.sttCalled
    /\ ~last.results["stt"]
    /\ last.results["tts"]
    /\ last.probe.ttsCreated
    /\ ~last.probe.ttsRemoved

----------------------------------------------------------------------------
(* Claims about building from configuration *)

\* C27: from_config creates the STT provider first and the TTS provider
\* second; a TTS constructor runs only after an STT constructor returned; the
\* call returns a handler iff both constructors ran and returned, and returns
\* none when either creation failed; the sections it parsed still hold their
\* provider key afterwards.
C27_FromConfigAllOrNothing ==
    last.op = "from_config"
        => /\ Len(last.ctors) <= 2
           /\ \A i \in DOMAIN last.ctors :
                /\ last.ctors[i].cls \in TTSClasses
                        => (i = 2 /\ last.ctors[1].cls \in STTClasses
                                  /\ last.ctors[1].outcome = "ok")
                /\ last.ctors[i].cls \in STTClasses => i = 1
           /\ last.outcome = "ok"
                <=> (Len(last.ctors) = 2 /\ \A i \in DOMAIN last.ctors :
                                                last.ctors[i].outcome = "ok")
           /\ last.outcome = "ok" => last.inst # NoInst
           /\ last.outcome = "raised" => last.inst = NoInst
           /\ \A i \in DOMAIN last.sections : "provider" \in DOMAIN last.sections[i]

C27_Witness ==
    /\ last.op = "from_config"
    /\ last.outcome = "raised"
    /\ Len(last.ctors) = 1
    /\ last.ctors[1].cls \in STTClasses
    /\ last.ctors[1].outcome = "raised"
    /\ last.inst = NoInst
    /\ "provider" \in DOMAIN last.sections[1]

C27_TtsFailsWitness ==
    /\ last.op = "from_config"
    /\ last.outcome = "raised"
    /\ Len(last.ctors) = 2
    /\ last.ctors[1].outcome = "ok"
    /\ last.ctors[2].outcome = "raised"
    /\ last.inst = NoInst

\* C29: every failure of convert_for_stt and convert_for_platform is one of
\* the converter's two errors, "FFmpeg required for audio conversion" or
\* "Audio conversion failed: ...", also when the tool found at construction
\* is gone or unusable at the time of the call.
C29_ConversionFailuresTranslated ==
    (last.op \in {"convert_for_stt", "convert_for_platform"} /\ last.outcome = "raised")
        => \/ last.error = ToolUnavailableError
           \/ /\ last.error.type = "RuntimeError"
              /\ Contains(last.error.msg, "Audio conversion failed: ")

----------------------------------------------------------------------------
(* Claims about the whole program *)

\* C22: only register_stt and register_tts write the registry: a create
\* (returning, failing on an unknown name, failing in the constructor),
\* from_config and every handler operation leave both tables as they were.
C22_RegistryWrittenOnlyByRegister ==
    [][last'.op # "register"
        => sttProviders' = sttProviders /\ ttsProviders' = ttsProviders]_vars

C22_Witness ==
    /\ sttProviders # SttModuleLoad
    /\ ttsProviders # TtsModuleLoad
    /\ handler.built
    /\ last.op = "create"
    /\ last.outcome = "raised"
    /\ last.ctors # <<>>

\* C26: once built, the handler stays built, and no operation other than a
\* new from_config, whether it returns or fails, changes the transcriber,
\* the synthesizer, the audio processor or the defaults it holds; a from_config
\* that fails leaves the handler built before it as it was.
C26_HandlerStaysReady ==
    [][handler.built
        => /\ handler'.built
           /\ (last'.op # "from_config" \/ last'.outcome = "raised") => handler' = handler]_vars

C26_Witness ==
    /\ handler.built
    /\ handler.processor.built
    /\ sttProbes > 0
    /\ last.op = "synthesize"
    /\ last.outcome = "raised"
    /\ last.delegated = "raised"
    /\ handler.tts = handler.configured

C28_FromConfigWitness ==
    /\ last.op = "from_config"
    /\ Len(last.sections) = 2
    /\ last.sections[2]["provider"] = "qwen3"
    /\ Len(last.ctors) = 2
    /\ last.ctors[1].outcome = "ok"
    /\ last.ctors[2].cls = "Qwen3TTS"
    /\ last.error.type = "NotImplementedError"

----------------------------------------------------------------------------
(* Specifications *)

Init ==
    /\ sttProviders = SttModuleLoad
    /\ ttsProviders = TtsModuleLoad
    /\ handler = NoHandler
    /\ files = {}
    /\ sttProbes = 0
    /\ ttsProbes = 0
    /\ processor = NoProcessor
    /\ audioFiles = {}
    /\ inflight = NoCall
    /\ last = Blank

RegistryNext ==
    \/ \E n \in RegNames, c \in RegClasses : RegisterStt(n, c)
    \/ \E n \in RegNames, c \in RegClasses : RegisterTts(n, c)
    \/ \E n \in CreateNames, cfg \in CreateConfigs, e \in CtorEnvs : CreateStt(n, cfg, e)
    \/ \E n \in CreateNames, cfg \in CreateConfigs, e \in CtorEnvs : CreateTts(n, cfg, e)

\* the registry on its own: register and create, in any order
RegistrySpec == Init /\ [][RegistryNext]_vars

\* from_config builds the TTS provider only when the STT provider was built,
\* and keeps the defaults only when both were: what it never reaches is fixed
SttCreated(s, e) ==
    Create(sttProviders, "stt", s["provider"], Without(s, "provider"), e).outcome = "ok"

TtsCreated(t, e) ==
    Create(ttsProviders, "tts", t["provider"], Without(t, "provider"), e).outcome = "ok"

FromConfigEnvs(s) ==
    { e \in CtorEnvs \X CtorEnvs : SttCreated(s, e[1]) \/ (e[2].dep /\ e[2].init = "ok") }

FromConfigTts(s, e) ==
    IF SttCreated(s, e[1]) THEN TtsSections ELSE {CHOOSE t \in TtsSections : TRUE}

FromConfigDefaults(s, t, e) ==
    IF SttCreated(s, e[1]) /\ TtsCreated(t, e[2]) THEN DefaultsSections ELSE {EmptyDict}

\* from_config without an AudioProcessor, for every document offered
Configure ==
    \E s \in SttSections : \E e \in FromConfigEnvs(s) :
    \E t \in FromConfigTts(s, e) : \E d \in FromConfigDefaults(s, t, e) :
        FromConfig(s, t, d, NoProcessor, e[1], e[2])

HandlerNext ==
    \/ Configure
    \/ \E p \in AudioPaths, e \in SttEnvs : Transcribe(p, e)
    \/ \E x \in SynthTexts, p \in OutPaths, v \in VoiceArgs, f \in FormatArgs, e \in TtsEnvs :
            Synthesize(x, p, v, f, e)
    \/ \E se \in SttLegEnvs, te \in TtsLegEnvs : TestConnection(se, te)
    \/ \E e \in VoicesEnvs : GetVoices(e)
    \/ GetDefaultBehaviorSummary

\* an orchestrator built from configuration and then called any number of times
HandlerSpec == Init /\ [][HandlerNext]_vars

AudioNext ==
    \/ \E e \in ToolEnvs : NewProcessor(e)
    \/ \E i \in AudioInputs, o \in AudioOutputs, e \in ToolEnvs : ConvertStt(i, o, e)
    \/ \E i \in AudioInputs, p \in Platforms, o \in AudioOutputs, e \in ToolEnvs :
            ConvertPlatform(i, p, o, e)
    \/ \E p \in CleanupPatterns, s \in StuckSets : Cleanup(p, s)
    \/ \E n \in ForeignNames : ForeignWrite(n)

\* an AudioProcessor built once or more and then called any number of times
AudioSpec == Init /\ [][AudioNext]_vars

\* configs offered to create before streaming
StreamConfigs ==
    CreateConfigs \cup {[api_key |-> "sk-test", voice |-> "nova"], [model |-> "base"]}

\* what the orchestrated flow is built from and called with
PipelineStt == {[provider |-> "faster-whisper", model |-> "base", device |-> "cpu"]}

PipelineTts ==
    {[provider |-> "kokoro", base_url |-> "http://localhost:8880/v1",
      voice |-> "af_bella", format |-> "ogg"]}

PipelineNext ==
    \/ \E e \in ToolEnvs : NewProcessor(e)
    \/ \E s \in PipelineStt, t \in PipelineTts, d \in DefaultsSections,
          p \in {NoProcessor, processor}, e \in CtorEnvs :
            FromConfig(s, t, d, p, e, e)
    \/ \E p \in AudioPaths, e \in SttEnvs : Transcribe(p, e)
    \/ \E x \in SynthTexts, p \in OutPaths, v \in VoiceArgs, f \in FormatArgs, e \in TtsEnvs :
            Synthesize(x, p, v, f, e)
    \/ \E i \in AudioPaths, o \in OutPaths, p \in Platforms, e \in SttEnvs :
            ProcessVoiceMessage(i, o, p, e)

\* a handler built with or without an AudioProcessor and then called
PipelineSpec == Init /\ [][PipelineNext]_vars

StreamNext ==
    \/ \E n \in DOMAIN SttModuleLoad, cfg \in StreamConfigs, e \in CtorEnvs :
            CreateStt(n, cfg, e)
    \/ \E n \in DOMAIN TtsModuleLoad, cfg \in StreamConfigs, e \in CtorEnvs :
            CreateTts(n, cfg, e)
    \/ \E m \in {"transcribe_stream", "synthesize_stream"}, u \in StreamUses, e \in TtsEnvs :
            StreamCall(m, u, e)

\* adapters made by the registry and then asked to stream
StreamSpec == Init /\ [][StreamNext]_vars

ReadyNext ==
    \/ \E e \in ToolEnvs : NewProcessor(e)
    \/ \E s \in PipelineStt, t \in PipelineTts, p \in {NoProcessor, processor},
          e \in CtorEnvs \X CtorEnvs :
            FromConfig(s, t, EmptyDict, p, e[1], e[2])
    \/ \E p \in AudioPaths, e \in SttEnvs : Transcribe(p, e)
    \/ \E x \in SynthTexts, p \in OutPaths, v \in VoiceArgs, f \in FormatArgs, e \in TtsEnvs :
            Synthesize(x, p, v, f, e)
    \/ \E i \in AudioPaths, o \in OutPaths, p \in Platforms, e \in SttEnvs :
            ProcessVoiceMessage(i, o, p, e)
    \/ \E se \in SttLegEnvs, te \in TtsLegEnvs : TestConnection(se, te)
    \/ \E e \in VoicesEnvs : GetVoices(e)
    \/ GetDefaultBehaviorSummary

\* a handler holding an AudioProcessor, with every operation it has
ReadySpec == Init /\ [][ReadyNext]_vars

\* what the whole program is built from when registry, factory and handler
\* are used together
SystemStt ==
    {[provider |-> "faster-whisper", model |-> "base", device |-> "cpu"],
     [provider |-> "custom"], [provider |-> "does-not-exist"]}

SystemTts ==
    {[provider |-> "kokoro", base_url |-> "http://localhost:8880/v1",
      voice |-> "af_bella", format |-> "ogg"],
     [provider |-> "qwen3"]}

SystemNext ==
    \/ \E c \in {"FasterWhisperSTT"} : RegisterStt("custom", c)
    \/ \E c \in {"KokoroTTS"} : RegisterTts("custom", c)
    \/ \E n \in CreateNames, cfg \in CreateConfigs, e \in CtorEnvs : CreateStt(n, cfg, e)
    \/ \E n \in CreateNames, cfg \in CreateConfigs, e \in CtorEnvs : CreateTts(n, cfg, e)
    \/ \E s \in SystemStt, t \in SystemTts, e \in CtorEnvs \X CtorEnvs :
            FromConfig(s, t, EmptyDict, NoProcessor, e[1], e[2])
    \/ \E p \in AudioPaths, e \in SttEnvs : Transcribe(p, e)
    \/ \E x \in SynthTexts, p \in OutPaths, e \in TtsEnvs : Synthesize(x, p, None, None, e)
    \/ \E se \in SttLegEnvs, te \in TtsLegEnvs : TestConnection(se, te)
    \/ \E e \in VoicesEnvs : GetVoices(e)
    \/ GetDefaultBehaviorSummary

\* registry, factory and one handler in one program
SystemSpec == Init /\ [][SystemNext]_vars

BlockingNext ==
    \/ inflight.phase = "idle" /\ Configure
    \/ inflight.phase = "idle" /\ \E e \in ToolEnvs : NewProcessor(e)
    \/ \E o \in {"transcribe", "synthesize", "get_voices", "convert_for_stt",
                  "convert_for_platform"},
          w \in STTClasses \cup TTSClasses \cup {"ffmpeg"} :
            BeginCall([op |-> o, who |-> w])
    \/ \E a \in BackendAnswers : AnswerArrives(a)
    \/ ReturnCall
    \/ TimeOut

\* one caller making blocking calls one after the other.  The program's own
\* steps are taken when they can be: a call whose answer has arrived returns,
\* and a wait that has a bound ends.  Nothing obliges the backend to answer.
BlockingSpec ==
    Init /\ [][BlockingNext]_vars /\ WF_vars(ReturnCall) /\ WF_vars(TimeOut)

Next ==
    \/ RegistryNext \/ HandlerNext \/ AudioNext \/ StreamNext
    \/ PipelineNext \/ ReadyNext \/ SystemNext \/ BlockingNext

Spec == Init /\ [][Next]_vars

====
